---------------------------- MODULE Spec2Model ----------------------------
(***************************************************************************)
(* Model of django-filer's File model (filer/models/filemodels.py): the    *)
(* lifecycle of a File record (construction, visibility toggle, save with  *)
(* the blob move between the public and the private storage, delete with   *)
(* the shared-blob guard), the duplicate queries of FileManager, and the   *)
(* delivery backends exercised by tests/test_server_backends.py.           *)
(*                                                                         *)
(* Specifications:                                                         *)
(*   Spec           records created, toggled, saved, loaded and deleted,   *)
(*                  each operation atomic                                  *)
(*   SpecOne        one record from its construction in memory, with       *)
(*                  assignments of file                                    *)
(*   SpecHash       file_data_changed() and generate_sha1(), one file call *)
(*                  at a time                                              *)
(*   SpecDel        delete() one call at a time, deletes interleaved       *)
(*   SpecDelCreate  the same with records created meanwhile                *)
(*   SpecCopies     save() one call at a time on copies of one record      *)
(*   SpecServe      the delivery backends                                  *)
(***************************************************************************)
EXTENDS Integers, Sequences, FiniteSets, TLC

(***************************************************************************)
(* Bounds of the model.                                                    *)
(***************************************************************************)
NumRecords == 2
NumPaths == 2
MaxLen == 1
\* the clock of the delivery scenarios, in ticks, and the ticks in a second
MaxClock == 4
TicksPerSecond == 2

Ids == 1..NumRecords
Paths == 1..NumPaths
Bytes == {0, 1}

RECURSIVE SeqsUpTo(_)
SeqsUpTo(n) ==
    IF n = 0 THEN {<<>>}
    ELSE LET shorter == SeqsUpTo(n - 1)
         IN shorter \cup {Append(s, b) : s \in {t \in shorter : Len(t) = n - 1}, b \in Bytes}

Contents == SeqsUpTo(MaxLen)

(***************************************************************************)
(* Program constants.                                                      *)
(***************************************************************************)
\* sha1 = '' : the CharField default and the value set when hashing fails
EmptySha1 == 0
\* _file_size = None
NoneSize == -1
\* the chunk size of generate_sha1's read loop
ChunkSize == 104857600
\* file = None / no name
NoName == 0
\* a request without an if-modified-since header
NoHeader == -1

(***************************************************************************)
(* The two storages (file.storages['public'], file.storages['private']),   *)
(* indexed by is_public.  A cell is a blob or no blob.                     *)
(***************************************************************************)
NoBlob == [exists |-> FALSE, bytes |-> <<>>]
Blob(c) == [exists |-> TRUE, bytes |-> c]
Cells == {NoBlob} \cup {Blob(c) : c \in Contents}

\* storage.exists(name)
StorageExists(st, pub, name) == name \in Paths /\ st[pub][name].exists

\* storage.delete(name): deleting a name that does not exist is not an error
StorageDelete(st, pub, name) ==
    IF name \in Paths THEN [st EXCEPT ![pub][name] = NoBlob] ELSE st

\* the names storage.save(name, content) may return: the name asked for when
\* it is free, otherwise another free name (get_available_name)
AvailableNames(st, pub, name) ==
    IF ~st[pub][name].exists THEN {name}
    ELSE {n \in Paths : ~st[pub][n].exists}

\* storage.save(name, content) having picked the name actual
StorageSave(st, pub, actual, c) == [st EXCEPT ![pub][actual] = Blob(c)]

(***************************************************************************)
(* Hashing.  The digest is modelled by an injective numbering of the byte  *)
(* strings: the sha state is updated byte by byte, and hexdigest() is      *)
(* never the empty string.                                                 *)
(***************************************************************************)
RECURSIVE ShaUpdate(_, _)
ShaUpdate(h, buf) ==
    IF buf = <<>> THEN h
    ELSE ShaUpdate(2 * h + Head(buf) + 1, Tail(buf))

HexDigest(h) == h + 1

Min(a, b) == IF a < b THEN a ELSE b

\* file.read(n) at position pos: the bytes read
ReadChunk(c, pos, n) == SubSeq(c, pos + 1, Min(Len(c), pos + n))

\* the loop of generate_sha1 from position pos with sha state h
RECURSIVE Sha1Loop(_, _, _)
Sha1Loop(c, pos, h) ==
    LET buf == ReadChunk(c, pos, ChunkSize)
    IN IF buf = <<>> THEN HexDigest(h)
       ELSE Sha1Loop(c, pos + Len(buf), ShaUpdate(h, buf))

(***************************************************************************)
(* An in-memory File instance.                                             *)
(***************************************************************************)
NoInst == [live |-> FALSE, pk |-> FALSE, is_public |-> FALSE,
           old_is_public |-> FALSE, name |-> NoName, committed |-> TRUE,
           upload |-> <<>>, sha1 |-> EmptySha1, size |-> NoneSize,
           hint |-> "None"]

\* a row of the File table; a primary key is never given twice, so the row
\* of a deleted record stays marked
NoRow == [saved |-> FALSE, deleted |-> FALSE, name |-> NoName,
          is_public |-> FALSE, sha1 |-> EmptySha1, size |-> NoneSize]

DeletedRow == [NoRow EXCEPT !.deleted = TRUE]

VARIABLES db, inst, storages, last, clock, mtime, file_closed, resp,
          hashing, proc

lifeVars == <<db, inst, storages, last>>
serveVars == <<clock, mtime, file_closed, resp>>
\* the calls in progress: a file_data_changed() call taken read by read, and
\* the delete() and save() calls taken storage call by storage call
stepVars == <<hashing, proc>>
vars == <<db, inst, storages, last, clock, mtime, file_closed, resp,
          hashing, proc>>

(***************************************************************************)
(* The file attribute of an instance (a FieldFile bound to the instance):  *)
(* it addresses the storage selected by the instance's is_public.  An      *)
(* uncommitted file is an upload held in memory.                           *)
(***************************************************************************)
\* whether the file's bytes can be read (size, open, read)
FileReadable(o, st) ==
    IF ~o.committed THEN TRUE
    ELSE StorageExists(st, o.is_public, o.name)

FileBytes(o, st) ==
    IF ~o.committed THEN o.upload ELSE st[o.is_public][o.name].bytes

\* generate_sha1: seek(0), read to the end in chunks, hexdigest
generate_sha1(o, st) == Sha1Loop(FileBytes(o, st), 0, 0)

\* file_data_changed: the instance afterwards, and the value returned
file_data_changed(o, post_init, st) ==
    LET o1 == [o EXCEPT !.hint = "None"]
    IN IF o.hint = "False"
       THEN [o |-> o1, changed |-> FALSE]
       ELSE IF post_init /\ o1.size > 0 /\ o1.sha1 # EmptySha1
       THEN [o |-> o1, changed |-> FALSE]
       ELSE [o |-> [o1 EXCEPT
                      !.size = IF FileReadable(o1, st)
                               THEN Len(FileBytes(o1, st)) ELSE NoneSize,
                      !.sha1 = IF FileReadable(o1, st)
                               THEN generate_sha1(o1, st) ELSE EmptySha1],
             changed |-> TRUE]

\* self.file = <name returned by storage.save>: the descriptor stores the
\* committed name and calls file_data_changed()
AssignFile(o, name, st) ==
    file_data_changed([o EXCEPT !.name = name, !.committed = TRUE,
                                !.upload = <<>>], FALSE, st)

(***************************************************************************)
(* What the last operation did (history, read by the properties only).     *)
(***************************************************************************)
NoOp == [op |-> "none", id |-> 0, outcome |-> "none", raised |-> FALSE,
         hashed |-> FALSE]

\* no delivery call made yet
NoResp == [backend |-> "none", kind |-> "none", header |-> "none",
           value |-> <<>>, last_modified |-> NoHeader, opened |-> FALSE,
           ims |-> NoHeader, exists |-> FALSE, mtime |-> 0]

\* no file_data_changed() call in progress
NoHashing == [pc |-> "idle", bytes |-> <<>>, pos |-> 0, sha |-> 0,
              sha1 |-> EmptySha1, size |-> NoneSize, trigger |-> "none",
              size_failed |-> FALSE, hash_failed |-> FALSE,
              reads |-> 0, calls |-> 0, hint |-> "None"]

\* no delete() or save() call in progress
NoProc == [pc |-> "idle", op |-> "none", id |-> 0, o |-> NoInst,
           found |-> FALSE, src |-> NoName, content |-> <<>>,
           toggled |-> FALSE, raised |-> FALSE]
NoProcs == [k \in Ids |-> NoProc]

EmptyTable == [i \in Ids |-> NoRow]
EmptyStorages == [pub \in BOOLEAN |-> [p \in Paths |-> NoBlob]]

Init ==
    /\ db = EmptyTable
    /\ inst = [i \in Ids |-> NoInst]
    /\ storages = EmptyStorages
    /\ last = NoOp
    /\ clock = 0
    /\ mtime = 0
    /\ file_closed = TRUE
    /\ resp = NoResp
    /\ hashing = NoHashing
    /\ proc = NoProcs

\* File.__init__ of a new object
NewInstance(pub, name, committed, upload, st) ==
    file_data_changed([NoInst EXCEPT !.live = TRUE, !.is_public = pub,
                                     !.old_is_public = pub, !.name = name,
                                     !.committed = committed,
                                     !.upload = upload], TRUE, st).o

\* file.is_public = not file.is_public
TogglePublic(i) ==
    /\ inst[i].live
    /\ inst' = [inst EXCEPT ![i].is_public = ~inst[i].is_public]
    /\ last' = NoOp
    /\ UNCHANGED <<db, storages>>
    /\ UNCHANGED serveVars
    /\ UNCHANGED stepVars

\* the row super().save() writes for an instance
RowOf(o) == [saved |-> TRUE, deleted |-> FALSE, name |-> o.name, is_public |-> o.is_public,
             sha1 |-> o.sha1, size |-> o.size]

\* the blob a (tier, name) pair locates
CellAt(st, pub, name) == IF name \in Paths THEN st[pub][name] ELSE NoBlob

(***************************************************************************)
(* Variants of _move_file with one plausible slip each.                    *)
(***************************************************************************)
\* the source is deleted before the destination is written
_move_file_delete_first(o, st, actual, fail) ==
    LET src_file_name == o.name
        src_pub == ~o.is_public
        dst_pub == o.is_public
    IN IF ~StorageExists(st, src_pub, src_file_name)
       THEN [o |-> o, st |-> st, exc |-> TRUE, outcome |-> "open_failed",
             hashed |-> FALSE]
       ELSE
         LET content == st[src_pub][src_file_name].bytes
             hinted == [o EXCEPT !.hint = "False"]
             st0 == StorageDelete(st, src_pub, src_file_name)
         IN IF fail = "write"
            THEN [o |-> hinted, st |-> st0, exc |-> TRUE,
                  outcome |-> "write_failed", hashed |-> FALSE]
            ELSE
              LET st1 == StorageSave(st0, dst_pub, actual, content)
                  a == AssignFile(hinted, actual, st1)
              IN [o |-> a.o, st |-> st1, exc |-> FALSE,
                  outcome |-> "moved", hashed |-> a.changed]

\* the source is never deleted
_move_file_keep_source(o, st, actual, fail) ==
    LET src_file_name == o.name
        src_pub == ~o.is_public
        dst_pub == o.is_public
    IN IF ~StorageExists(st, src_pub, src_file_name)
       THEN [o |-> o, st |-> st, exc |-> TRUE, outcome |-> "open_failed",
             hashed |-> FALSE]
       ELSE
         LET content == st[src_pub][src_file_name].bytes
             hinted == [o EXCEPT !.hint = "False"]
         IN IF fail = "write"
            THEN [o |-> hinted, st |-> st, exc |-> TRUE,
                  outcome |-> "write_failed", hashed |-> FALSE]
            ELSE
              LET st1 == StorageSave(st, dst_pub, actual, content)
                  a == AssignFile(hinted, actual, st1)
              IN [o |-> a.o, st |-> st1, exc |-> FALSE,
                  outcome |-> "moved", hashed |-> a.changed]

\* the hint is not set before the assignment
_move_file_no_hint(o, st, actual, fail) ==
    LET src_file_name == o.name
        src_pub == ~o.is_public
        dst_pub == o.is_public
    IN IF ~StorageExists(st, src_pub, src_file_name)
       THEN [o |-> o, st |-> st, exc |-> TRUE, outcome |-> "open_failed",
             hashed |-> FALSE]
       ELSE
         LET content == st[src_pub][src_file_name].bytes
         IN IF fail = "write"
            THEN [o |-> o, st |-> st, exc |-> TRUE,
                  outcome |-> "write_failed", hashed |-> FALSE]
            ELSE
              LET st1 == StorageSave(st, dst_pub, actual, content)
                  a == AssignFile(o, actual, st1)
              IN [o |-> a.o,
                  st |-> StorageDelete(st1, src_pub, src_file_name),
                  exc |-> FALSE, outcome |-> "moved",
                  hashed |-> a.changed]

(***************************************************************************)
(* _move_file.  fail names the storage call that raises if it is reached   *)
(* ("write": the save of the destination storage); opening a source that   *)
(* does not exist raises by itself; a failure of the final delete of the   *)
(* source is not modelled.  delete_thumbnails() runs between two toggles   *)
(* of is_public and leaves the instance as it was.  The result is the      *)
(* instance and the storages when the method returns or raises (exc).      *)
(***************************************************************************)
_move_file(o, st, actual, fail) ==
    LET src_file_name == o.name
        src_pub == ~o.is_public
        dst_pub == o.is_public
    IN IF ~StorageExists(st, src_pub, src_file_name)
       THEN [o |-> o, st |-> st, exc |-> TRUE, outcome |-> "open_failed",
             hashed |-> FALSE]
       ELSE
         LET content == st[src_pub][src_file_name].bytes
             hinted == [o EXCEPT !.hint = "False"]
         IN IF fail = "write"
            THEN [o |-> hinted, st |-> st, exc |-> TRUE,
                  outcome |-> "write_failed", hashed |-> FALSE]
            ELSE
              LET st1 == StorageSave(st, dst_pub, actual, content)
                  a == AssignFile(hinted, actual, st1)
              IN [o |-> a.o,
                  st |-> StorageDelete(st1, src_pub, src_file_name),
                  exc |-> FALSE, outcome |-> "moved",
                  hashed |-> a.changed]

\* the file field's pre_save inside super().save(): an uncommitted file is
\* written to the storage of the instance's tier and its name assigned
pre_save(o, st, actual, fail) ==
    IF o.committed
    THEN [o |-> o, st |-> st, exc |-> FALSE, outcome |-> "saved",
          hashed |-> FALSE]
    ELSE IF fail = "write"
    THEN [o |-> o, st |-> st, exc |-> TRUE, outcome |-> "commit_failed",
          hashed |-> FALSE]
    ELSE LET st1 == StorageSave(st, o.is_public, actual, o.upload)
             a == AssignFile(o, actual, st1)
         IN [o |-> a.o, st |-> st1, exc |-> FALSE, outcome |-> "saved",
             hashed |-> a.changed]

\* whether save() moves the blob
NeedsMove(o) == o.old_is_public # o.is_public /\ o.pk

\* File.save: the instance, the storages and the table when it returns or
\* raises
save(o, i, rows, st, actual, fail) ==
    IF NeedsMove(o)
    THEN LET m == _move_file(o, st, actual, fail)
         IN IF m.exc
            THEN [o |-> m.o, st |-> m.st, rows |-> rows, exc |-> TRUE,
                  outcome |-> m.outcome, hashed |-> m.hashed]
            ELSE LET o1 == [m.o EXCEPT !.old_is_public = m.o.is_public]
                     s == pre_save(o1, m.st, actual, fail)
                 IN [o |-> [s.o EXCEPT !.pk = TRUE], st |-> s.st,
                     rows |-> [rows EXCEPT ![i] = RowOf(s.o)],
                     exc |-> FALSE, outcome |-> m.outcome,
                     hashed |-> m.hashed \/ s.hashed]
    ELSE LET s == pre_save(o, st, actual, fail)
         IN IF s.exc
            THEN [o |-> s.o, st |-> s.st, rows |-> rows, exc |-> TRUE,
                  outcome |-> s.outcome, hashed |-> s.hashed]
            ELSE [o |-> [s.o EXCEPT !.pk = TRUE], st |-> s.st,
                  rows |-> [rows EXCEPT ![i] = RowOf(s.o)],
                  exc |-> FALSE, outcome |-> s.outcome,
                  hashed |-> s.hashed]

FailPoints == {"none", "write"}

\* file.save() with generate_filename returning g and the destination
\* storage returning the name actual
Save(i, g, actual, fail) ==
    /\ inst[i].live
    /\ actual \in AvailableNames(storages, inst[i].is_public, g)
    /\ LET o == inst[i]
           r == save(o, i, db, storages, actual, fail)
       IN /\ inst' = [inst EXCEPT ![i] = r.o]
          /\ storages' = r.st
          /\ db' = r.rows
          /\ last' = [op |-> "save", id |-> i, outcome |-> r.outcome,
                      raised |-> r.exc,
                      hashed |-> r.hashed]
    /\ UNCHANGED serveVars
    /\ UNCHANGED stepVars

\* File.objects.create(is_public=pub, file=<upload with bytes c>): the
\* construction and the first save; a create that raises leaves no object
Create(i, pub, c, g, actual) ==
    /\ ~inst[i].live /\ ~db[i].saved /\ ~db[i].deleted
    /\ actual \in AvailableNames(storages, pub, g)
    /\ LET o == NewInstance(pub, NoName, FALSE, c, storages)
           r == save(o, i, db, storages, actual, "none")
       IN /\ inst' = [inst EXCEPT ![i] = r.o]
          /\ storages' = r.st
          /\ db' = r.rows
          /\ last' = [op |-> "create", id |-> i, outcome |-> r.outcome,
                      raised |-> r.exc,
                      hashed |-> TRUE]
    /\ UNCHANGED serveVars
    /\ UNCHANGED stepVars

\* File.objects.create(is_public=pub, file=<name p of a stored file>)
CreateRef(i, pub, p) ==
    /\ ~inst[i].live /\ ~db[i].saved /\ ~db[i].deleted
    /\ LET o == NewInstance(pub, p, TRUE, <<>>, storages)
           r == save(o, i, db, storages, p, "none")
       IN /\ inst' = [inst EXCEPT ![i] = r.o]
          /\ storages' = r.st
          /\ db' = r.rows
          /\ last' = [op |-> "create", id |-> i, outcome |-> r.outcome,
                      raised |-> r.exc,
                      hashed |-> TRUE]
    /\ UNCHANGED serveVars
    /\ UNCHANGED stepVars

\* File.objects.filter(file=name, is_public=pub).exists()
Referenced(rows, name, pub) ==
    \E j \in Ids : rows[j].saved /\ rows[j].name = name
                   /\ rows[j].is_public = pub

\* a delete that removes the blob without the reference check
delete_unguarded(o, i, rows, st) ==
    [rows |-> [rows EXCEPT ![i] = DeletedRow],
     st |-> StorageDelete(st, o.is_public, o.name), outcome |-> "removed"]

\* File.delete: the table and the storages afterwards
delete(o, i, rows, st) ==
    LET rows1 == [rows EXCEPT ![i] = DeletedRow]
    IN IF ~Referenced(rows1, o.name, o.is_public)
       THEN [rows |-> rows1, st |-> StorageDelete(st, o.is_public, o.name),
             outcome |-> "removed"]
       ELSE [rows |-> rows1, st |-> st, outcome |-> "kept"]

\* file.delete(), the instance being dropped afterwards
Delete(i) ==
    /\ inst[i].live /\ inst[i].pk
    /\ LET o == inst[i]
           r == delete(o, i, db, storages)
       IN /\ db' = r.rows
          /\ storages' = r.st
          /\ inst' = [inst EXCEPT ![i] = NoInst]
          /\ last' = [op |-> "delete", id |-> i, outcome |-> r.outcome,
                      raised |-> FALSE,
                      hashed |-> FALSE]
    /\ UNCHANGED serveVars
    /\ UNCHANGED stepVars

\* File.__init__ of an object built from a row of the table: the fields are
\* set from the row, then _old_is_public and file_data_changed(post_init)
FromDb(row, st) ==
    file_data_changed([NoInst EXCEPT !.live = TRUE, !.pk = TRUE,
                                     !.is_public = row.is_public,
                                     !.old_is_public = row.is_public,
                                     !.name = row.name,
                                     !.sha1 = row.sha1,
                                     !.size = row.size],
                      TRUE, st)

\* File.objects.get(pk=i): a fresh instance built from the row
Load(i) ==
    /\ db[i].saved
    /\ LET r == FromDb(db[i], storages)
       IN /\ inst' = [inst EXCEPT ![i] = r.o]
          /\ last' = [op |-> "load", id |-> i, outcome |-> "loaded",
                      raised |-> FALSE, hashed |-> r.changed]
    /\ UNCHANGED <<db, storages>>
    /\ UNCHANGED serveVars
    /\ UNCHANGED stepVars

Next ==
    \/ \E i \in Ids, pub \in BOOLEAN, c \in Contents, g \in Paths,
          actual \in Paths : Create(i, pub, c, g, actual)
    \/ \E i \in Ids, pub \in BOOLEAN, p \in Paths : CreateRef(i, pub, p)
    \/ \E i \in Ids : TogglePublic(i)
    \/ \E i \in Ids, g \in Paths, actual \in Paths, fail \in FailPoints :
          Save(i, g, actual, fail)
    \/ \E i \in Ids : Delete(i)
    \/ \E i \in Ids : Load(i)

Spec == Init /\ [][Next]_vars

(***************************************************************************)
(* FileManager: the duplicate queries over the File table.  A query set is *)
(* modelled by the set of primary keys it yields; pk 0 is the pk (None) of *)
(* an object that was never saved.                                         *)
(***************************************************************************)
\* self.all()
All(rows) == {j \in Ids : rows[j].saved}

\* qs.exclude(pk=pk)
ExcludePk(qs, pk) == {j \in qs : j # pk}

\* qs.filter(sha1=sha1)
FilterSha1(qs, rows, sha1) == {j \in qs : rows[j].sha1 = sha1}

\* a find_duplicates that forgets exclude(pk=file_obj.pk)
find_duplicates_including_self(rows, pk, sha1) ==
    FilterSha1(All(rows), rows, sha1)

\* find_duplicates(file_obj) for a file_obj with the given pk and sha1
find_duplicates(rows, pk, sha1) ==
    FilterSha1(ExcludePk(All(rows), pk), rows, sha1)

\* the primary keys of a query set in the order the loop visits them
RECURSIVE InOrder(_)
InOrder(qs) ==
    IF qs = {} THEN <<>>
    ELSE LET m == CHOOSE x \in qs : \A y \in qs : x <= y
         IN <<m>> \o InOrder(qs \ {m})

\* r[key] = q on a dict
DictSet(r, key, q) ==
    [k \in DOMAIN r \cup {key} |-> IF k = key THEN q ELSE r[k]]

\* a find_all_duplicates loop body that keeps groups of one record
find_all_duplicates_body_singles(rows, r, j) ==
    IF rows[j].sha1 # EmptySha1
    THEN LET q == FilterSha1(All(rows), rows, rows[j].sha1)
         IN IF Cardinality(q) > 0 THEN DictSet(r, rows[j].sha1, q) ELSE r
    ELSE r

\* the body of find_all_duplicates' loop for the record j
find_all_duplicates_body(rows, r, j) ==
    IF rows[j].sha1 # EmptySha1
    THEN LET q == FilterSha1(All(rows), rows, rows[j].sha1)
         IN IF Cardinality(q) > 1 THEN DictSet(r, rows[j].sha1, q) ELSE r
    ELSE r

RECURSIVE find_all_duplicates_loop(_, _, _)
find_all_duplicates_loop(rows, todo, r) ==
    IF todo = <<>> THEN r
    ELSE find_all_duplicates_loop(
             rows, Tail(todo), find_all_duplicates_body(rows, r, Head(todo)))

\* find_all_duplicates(): the dict returned, from sha1 to query set
find_all_duplicates(rows) ==
    find_all_duplicates_loop(rows, InOrder(All(rows)), <<>>)

(***************************************************************************)
(* Delivery.  The scenario of tests/test_server_backends.py: setUp creates *)
(* one private record from an upload, a test may remove its file from the  *)
(* disk (os.remove) and calls serve() of one backend.  clock and mtime     *)
(* count ticks; an HTTP date counts whole seconds.                         *)
(***************************************************************************)
\* the root directory of a storage
Location(pub) == IF pub THEN "public_root" ELSE "private_root"

\* the nginx_location the test configures
NginxLocation == "mylocation"

\* a path property that yields '' for a file that is not on the disk
path_checking_existence(o, st) ==
    IF StorageExists(st, o.is_public, o.name)
    THEN <<Location(o.is_public), o.name>> ELSE <<>>

\* File.path: file.path, the location of the storage joined with the name,
\* whether or not the file exists; '' when file.path raises (no file)
path(o, st) ==
    IF o.name \in Paths THEN <<Location(o.is_public), o.name>> ELSE <<>>

\* http_date(t): the time truncated to whole seconds
http_date(t) == t \div TicksPerSecond

\* was_modified_since(header, mtime)
was_modified_since(ims, mt) == ims = NoHeader \/ http_date(mt) > ims

\* a conditional check that compares the header with the untruncated mtime
DefaultServe_untruncated(o, st, mt, ims) ==
    IF ~StorageExists(st, o.is_public, o.name)
    THEN [NoResp EXCEPT !.backend = "default", !.kind = "not_found",
                        !.ims = ims]
    ELSE IF ~(ims = NoHeader \/ mt > ims * TicksPerSecond)
    THEN [NoResp EXCEPT !.backend = "default", !.kind = "not_modified",
                        !.ims = ims, !.exists = TRUE, !.mtime = mt]
    ELSE [NoResp EXCEPT !.backend = "default", !.kind = "response",
                        !.header = "Last-Modified",
                        !.last_modified = http_date(mt), !.opened = TRUE,
                        !.ims = ims, !.exists = TRUE, !.mtime = mt]

\* a direct delivery that does not look for the file first
DefaultServe_no_existence_check(o, st, mt, ims) ==
    IF ~was_modified_since(ims, mt)
    THEN [NoResp EXCEPT !.backend = "default", !.kind = "not_modified",
                        !.ims = ims,
                        !.exists = StorageExists(st, o.is_public, o.name),
                        !.mtime = mt]
    ELSE [NoResp EXCEPT !.backend = "default", !.kind = "response",
                        !.header = "Last-Modified",
                        !.last_modified = http_date(mt), !.opened = TRUE,
                        !.ims = ims,
                        !.exists = StorageExists(st, o.is_public, o.name),
                        !.mtime = mt]

\* DefaultServer.serve: not found when the file is not on the disk, not
\* modified when the header is not older than the file, else the file is
\* opened and streamed with a Last-Modified header
DefaultServe(o, st, mt, ims) ==
    IF ~StorageExists(st, o.is_public, o.name)
    THEN [NoResp EXCEPT !.backend = "default", !.kind = "not_found",
                        !.ims = ims]
    ELSE IF ~was_modified_since(ims, mt)
    THEN [NoResp EXCEPT !.backend = "default", !.kind = "not_modified",
                        !.ims = ims, !.exists = TRUE, !.mtime = mt]
    ELSE [NoResp EXCEPT !.backend = "default", !.kind = "response",
                        !.header = "Last-Modified",
                        !.last_modified = http_date(mt), !.opened = TRUE,
                        !.ims = ims, !.exists = TRUE, !.mtime = mt]

\* NginxXAccelRedirectServer.serve: the path with the storage location
\* replaced by nginx_location, in the X-Accel-Redirect header
NginxServe(o, st, mt) ==
    LET fullpath == path(o, st)
    IN [NoResp EXCEPT !.backend = "nginx", !.kind = "response",
                      !.header = "X-Accel-Redirect",
                      !.value = <<NginxLocation>> \o SubSeq(fullpath, 2, Len(fullpath)),
                      !.exists = StorageExists(st, o.is_public, o.name),
                      !.mtime = mt]

\* ApacheXSendfileServer.serve: the path in the X-Sendfile header
XSendfileServe(o, st, mt) ==
    [NoResp EXCEPT !.backend = "xsendfile", !.kind = "response",
                   !.header = "X-Sendfile", !.value = path(o, st),
                   !.exists = StorageExists(st, o.is_public, o.name),
                   !.mtime = mt]

\* the state after setUp: File.objects.create(is_public=False, file=upload)
\* at some time of the clock
InitServe ==
    \E p \in Paths, c \in Contents, t \in 0..MaxClock :
        LET o == NewInstance(FALSE, NoName, FALSE, c, EmptyStorages)
            r == save(o, 1, EmptyTable, EmptyStorages, p, "none")
        IN /\ db = r.rows
           /\ inst = [i \in Ids |-> IF i = 1 THEN r.o ELSE NoInst]
           /\ storages = r.st
           /\ last = NoOp
           /\ clock = t
           /\ mtime = t
           /\ file_closed = TRUE
           /\ resp = NoResp
           /\ hashing = NoHashing
           /\ proc = NoProcs

\* time passes
Tick ==
    /\ clock < MaxClock
    /\ clock' = clock + 1
    /\ UNCHANGED <<mtime, file_closed, resp>>
    /\ UNCHANGED lifeVars
    /\ UNCHANGED stepVars

\* os.remove(self.filer_file.file.path)
OsRemove ==
    /\ StorageExists(storages, inst[1].is_public, inst[1].name)
    /\ storages' = StorageDelete(storages, inst[1].is_public, inst[1].name)
    /\ UNCHANGED <<db, inst, last>>
    /\ UNCHANGED serveVars
    /\ UNCHANGED stepVars

\* DefaultServer().serve(request, filer_file), the request carrying the
\* if-modified-since value ims or none
ServeDefault(ims) ==
    /\ resp' = DefaultServe(inst[1], storages, mtime, ims)
    /\ UNCHANGED <<clock, mtime, file_closed>>
    /\ UNCHANGED lifeVars
    /\ UNCHANGED stepVars

\* NginxXAccelRedirectServer(...).serve(request, filer_file)
ServeNginx ==
    /\ resp' = NginxServe(inst[1], storages, mtime)
    /\ UNCHANGED <<clock, mtime, file_closed>>
    /\ UNCHANGED lifeVars
    /\ UNCHANGED stepVars

\* ApacheXSendfileServer().serve(request, filer_file)
ServeXSendfile ==
    /\ resp' = XSendfileServe(inst[1], storages, mtime)
    /\ UNCHANGED <<clock, mtime, file_closed>>
    /\ UNCHANGED lifeVars
    /\ UNCHANGED stepVars

\* the if-modified-since values a request may carry
Headers == {NoHeader} \cup 0..http_date(MaxClock)

NextServe ==
    \/ Tick
    \/ OsRemove
    \/ \E ims \in Headers : ServeDefault(ims)
    \/ ServeNginx
    \/ ServeXSendfile

SpecServe == InitServe /\ [][NextServe]_vars

(***************************************************************************)
(* One record followed from its construction: the object exists in memory  *)
(* before its first save, its is_public and its file may be assigned at    *)
(* any time, and it may be saved, loaded again and deleted.                *)
(***************************************************************************)
\* the record followed
TheRecord == CHOOSE i \in Ids : \A j \in Ids : i <= j

\* file_obj.file = <upload with bytes c>: the descriptor stores the upload
\* and calls file_data_changed()
AssignUpload(o, c, st) ==
    file_data_changed([o EXCEPT !.name = NoName, !.committed = FALSE,
                                !.upload = c], FALSE, st)

\* File(is_public=pub, file=<upload with bytes c>), not saved
Construct(i, pub, c) ==
    /\ ~inst[i].live /\ ~db[i].saved /\ ~db[i].deleted
    /\ inst' = [inst EXCEPT ![i] = NewInstance(pub, NoName, FALSE, c, storages)]
    /\ last' = [op |-> "construct", id |-> i, outcome |-> "constructed",
                raised |-> FALSE, hashed |-> TRUE]
    /\ UNCHANGED <<db, storages>>
    /\ UNCHANGED serveVars
    /\ UNCHANGED stepVars

\* file_obj.file = <upload with bytes c> on a live object
SetContent(i, c) ==
    /\ inst[i].live
    /\ LET r == AssignUpload(inst[i], c, storages)
       IN /\ inst' = [inst EXCEPT ![i] = r.o]
          /\ last' = [op |-> "assign", id |-> i, outcome |-> "assigned",
                      raised |-> FALSE, hashed |-> r.changed]
    /\ UNCHANGED <<db, storages>>
    /\ UNCHANGED serveVars
    /\ UNCHANGED stepVars

NextOne ==
    \/ \E pub \in BOOLEAN, c \in Contents : Construct(TheRecord, pub, c)
    \/ TogglePublic(TheRecord)
    \/ \E c \in Contents : SetContent(TheRecord, c)
    \/ \E g \in Paths, actual \in Paths, fail \in FailPoints :
          Save(TheRecord, g, actual, fail)
    \/ Load(TheRecord)
    \/ Delete(TheRecord)

SpecOne == Init /\ [][NextOne]_vars

(***************************************************************************)
(* file_data_changed() taken one file call at a time.  hashing is the call *)
(* in progress: the stream of the record's file (bytes, pos), the sha      *)
(* object, the fields _file_size and sha1, and what happened in the call.  *)
(* A read returns at most the number of bytes asked for and may return     *)
(* fewer; any file call may raise.                                         *)
(***************************************************************************)
MaxStreamLen == 3
MaxCalls == 2

Streams == SeqsUpTo(MaxStreamLen)

\* the (sha1, _file_size) a record may carry when the call starts: nothing,
\* or the identity of an earlier content
EarlierIdentities ==
    {[sha1 |-> EmptySha1, size |-> NoneSize]}
       \cup {[sha1 |-> Sha1Loop(c, 0, 0), size |-> Len(c)] : c \in {<<>>, <<0>>}}

\* a generate_sha1 that does not seek back to the start after hashing
generate_sha1_step_no_rewind(h, n, fail) ==
    IF fail THEN [h EXCEPT !.pc = "raise"]
    ELSE IF h.pc = "seek"
    THEN [h EXCEPT !.pc = "read", !.pos = 0, !.sha = 0]
    ELSE LET buf == ReadChunk(h.bytes, h.pos, n)
         IN IF buf = <<>>
            THEN [h EXCEPT !.reads = h.reads + 1,
                           !.sha1 = HexDigest(h.sha), !.pc = "return"]
            ELSE [h EXCEPT !.reads = h.reads + 1,
                           !.pos = h.pos + Len(buf),
                           !.sha = ShaUpdate(h.sha, buf)]

\* generate_sha1, one file call: seek(0) with a new sha object (pc "seek"),
\* a read of n bytes (pc "read": an empty read ends the loop and sets sha1),
\* the final seek(0) (pc "rewind").  pc "raise": the call raised;
\* pc "return": generate_sha1 returned.
generate_sha1_step(h, n, fail) ==
    IF fail THEN [h EXCEPT !.pc = "raise"]
    ELSE IF h.pc = "seek"
    THEN [h EXCEPT !.pc = "read", !.pos = 0, !.sha = 0]
    ELSE IF h.pc = "read"
    THEN LET buf == ReadChunk(h.bytes, h.pos, n)
         IN IF buf = <<>>
            THEN [h EXCEPT !.reads = h.reads + 1,
                           !.sha1 = HexDigest(h.sha), !.pc = "rewind"]
            ELSE [h EXCEPT !.reads = h.reads + 1,
                           !.pos = h.pos + Len(buf),
                           !.sha = ShaUpdate(h.sha, buf)]
    ELSE [h EXCEPT !.pos = 0, !.pc = "return"]

\* a file_data_changed whose handler of a hashing failure does nothing
file_data_changed_step_pass(h, n, fail) ==
    IF h.pc = "size"
    THEN [h EXCEPT !.size = IF fail THEN NoneSize ELSE Len(h.bytes),
                   !.size_failed = fail, !.pc = "seek"]
    ELSE LET g == generate_sha1_step(h, n, fail)
         IN IF g.pc = "raise"
            THEN [g EXCEPT !.hash_failed = TRUE, !.pc = "done"]
            ELSE IF g.pc = "return" THEN [g EXCEPT !.pc = "done"]
            ELSE g

\* file_data_changed after its early returns, one file call: the size read
\* (pc "size"), then generate_sha1; a size read that raises gives
\* _file_size = None, a generate_sha1 that raises gives sha1 = ''; then the
\* call returns True (pc "done")
file_data_changed_step(h, n, fail) ==
    IF h.pc = "size"
    THEN [h EXCEPT !.size = IF fail THEN NoneSize ELSE Len(h.bytes),
                   !.size_failed = fail, !.pc = "seek"]
    ELSE LET g == generate_sha1_step(h, n, fail)
         IN IF g.pc = "raise"
            THEN [g EXCEPT !.sha1 = EmptySha1, !.hash_failed = TRUE,
                           !.pc = "done"]
            ELSE IF g.pc = "return" THEN [g EXCEPT !.pc = "done"]
            ELSE g

\* the start of file_data_changed(post_init): the hint and the early returns
file_data_changed_begin(h, post_init) ==
    LET h1 == [h EXCEPT !.hint = "None", !.reads = 0,
                        !.size_failed = FALSE, !.hash_failed = FALSE,
                        !.trigger = IF post_init THEN "init" ELSE "assign"]
    IN IF h.hint = "False"
       THEN [h1 EXCEPT !.pc = "skipped"]
       ELSE IF post_init /\ h1.size > 0 /\ h1.sha1 # EmptySha1
       THEN [h1 EXCEPT !.pc = "skipped"]
       ELSE [h1 EXCEPT !.pc = "size"]

\* a record with a file of some content, read up to some position, and some
\* earlier identity; the hint may be left set by a move that failed
InitHash ==
    /\ \E c \in Streams, p \in 0..MaxStreamLen, e \in EarlierIdentities,
          hint \in {"None", "False"} :
          /\ p <= Len(c)
          /\ hashing = [NoHashing EXCEPT !.bytes = c, !.pos = p,
                                         !.sha1 = e.sha1, !.size = e.size,
                                         !.hint = hint]
    /\ db = EmptyTable
    /\ inst = [i \in Ids |-> NoInst]
    /\ storages = EmptyStorages
    /\ last = NoOp
    /\ clock = 0
    /\ mtime = 0
    /\ file_closed = TRUE
    /\ resp = NoResp
    /\ proc = NoProcs

\* __init__ (post_init) or an assignment to file calls file_data_changed
HashBegin(post_init) ==
    /\ hashing.pc = "idle"
    /\ hashing' = file_data_changed_begin(hashing, post_init)
    /\ UNCHANGED <<lifeVars, serveVars, proc>>

\* the size read
HashSize(fail) ==
    /\ hashing.pc = "size"
    /\ hashing' = file_data_changed_step(hashing, 0, fail)
    /\ UNCHANGED <<lifeVars, serveVars, proc>>

\* the first seek(0) of generate_sha1
HashSeek(fail) ==
    /\ hashing.pc = "seek"
    /\ hashing' = file_data_changed_step(hashing, 0, fail)
    /\ UNCHANGED <<lifeVars, serveVars, proc>>

\* a read that returns n bytes, n = 0 only at the end of the stream
HashRead(n, fail) ==
    /\ hashing.pc = "read"
    /\ n <= Min(ChunkSize, Len(hashing.bytes) - hashing.pos)
    /\ n = 0 <=> hashing.pos = Len(hashing.bytes)
    /\ hashing' = file_data_changed_step(hashing, n, fail)
    /\ UNCHANGED <<lifeVars, serveVars, proc>>

\* the last seek(0) of generate_sha1
HashRewind(fail) ==
    /\ hashing.pc = "rewind"
    /\ hashing' = file_data_changed_step(hashing, 0, fail)
    /\ UNCHANGED <<lifeVars, serveVars, proc>>

\* the caller goes on; the stream is left as it is
HashReturn ==
    /\ hashing.pc \in {"done", "skipped"}
    /\ hashing.calls < MaxCalls
    /\ hashing' = [hashing EXCEPT !.pc = "idle", !.calls = hashing.calls + 1]
    /\ UNCHANGED <<lifeVars, serveVars, proc>>

NextHash ==
    \/ \E post_init \in BOOLEAN : HashBegin(post_init)
    \/ \E fail \in BOOLEAN : HashSize(fail)
    \/ \E fail \in BOOLEAN : HashSeek(fail)
    \/ \E n \in 0..MaxStreamLen, fail \in BOOLEAN : HashRead(n, fail)
    \/ \E fail \in BOOLEAN : HashRewind(fail)
    \/ HashReturn

SpecHash == InitHash /\ [][NextHash]_vars

(***************************************************************************)
(* delete() taken one call at a time, so that the delete() calls of        *)
(* several records, and the creation of records, interleave.  proc[i] is   *)
(* the delete() call on the instance of record i: super().delete() (pc     *)
(* "remove"), the filter(...).exists() query (pc "check"), and             *)
(* file.delete(False) (pc "blob").                                         *)
(***************************************************************************)
\* a delete() that removes the blob whatever the query finds
delete_step_unchecked(d, rows, st) ==
    IF d.pc = "remove"
    THEN [d |-> [d EXCEPT !.pc = "check"],
          rows |-> [rows EXCEPT ![d.id] = DeletedRow], st |-> st]
    ELSE IF d.pc = "check"
    THEN [d |-> [d EXCEPT !.found = FALSE, !.pc = "blob"],
          rows |-> rows, st |-> st]
    ELSE [d |-> [d EXCEPT !.pc = "done"], rows |-> rows,
          st |-> StorageDelete(st, d.o.is_public, d.o.name)]

\* a delete() whose query still sees the record's own row
delete_step_sees_own_row(d, rows, st) ==
    IF d.pc = "remove"
    THEN [d |-> [d EXCEPT !.pc = "check"],
          rows |-> [rows EXCEPT ![d.id] = DeletedRow], st |-> st]
    ELSE IF d.pc = "check"
    THEN LET found == Referenced([rows EXCEPT ![d.id] = RowOf(d.o)],
                                 d.o.name, d.o.is_public)
         IN [d |-> [d EXCEPT !.found = found,
                             !.pc = IF found THEN "done" ELSE "blob"],
             rows |-> rows, st |-> st]
    ELSE [d |-> [d EXCEPT !.pc = "done"], rows |-> rows,
          st |-> StorageDelete(st, d.o.is_public, d.o.name)]

\* a delete() that makes the query again, together with the blob deletion
delete_step_recheck(d, rows, st) ==
    IF d.pc = "remove"
    THEN [d |-> [d EXCEPT !.pc = "check"],
          rows |-> [rows EXCEPT ![d.id] = DeletedRow], st |-> st]
    ELSE IF d.pc = "check"
    THEN LET found == Referenced(rows, d.o.name, d.o.is_public)
         IN [d |-> [d EXCEPT !.found = found,
                             !.pc = IF found THEN "done" ELSE "blob"],
             rows |-> rows, st |-> st]
    ELSE [d |-> [d EXCEPT !.pc = "done"], rows |-> rows,
          st |-> IF Referenced(rows, d.o.name, d.o.is_public) THEN st
                 ELSE StorageDelete(st, d.o.is_public, d.o.name)]

\* File.delete, one call: the call d, the table and the storages afterwards
delete_step(d, rows, st) ==
    IF d.pc = "remove"
    THEN [d |-> [d EXCEPT !.pc = "check"],
          rows |-> [rows EXCEPT ![d.id] = DeletedRow], st |-> st]
    ELSE IF d.pc = "check"
    THEN LET found == Referenced(rows, d.o.name, d.o.is_public)
         IN [d |-> [d EXCEPT !.found = found,
                             !.pc = IF found THEN "done" ELSE "blob"],
             rows |-> rows, st |-> st]
    ELSE [d |-> [d EXCEPT !.pc = "done"], rows |-> rows,
          st |-> StorageDelete(st, d.o.is_public, d.o.name)]

\* one call of a delete() in progress; the instance is dropped when delete()
\* has returned
DeleteStep(i, d) ==
    LET r == delete_step(d, db, storages)
    IN /\ proc' = [proc EXCEPT ![i] = r.d]
       /\ db' = r.rows
       /\ storages' = r.st
       /\ inst' = IF r.d.pc = "done" THEN [inst EXCEPT ![i] = NoInst] ELSE inst
       /\ last' = NoOp
       /\ UNCHANGED serveVars
       /\ UNCHANGED hashing

\* file.delete() is called and removes the row
DeleteRow(i) ==
    /\ proc[i].pc = "idle"
    /\ inst[i].live /\ inst[i].pk
    /\ DeleteStep(i, [NoProc EXCEPT !.pc = "remove", !.op = "delete",
                                    !.id = i, !.o = inst[i]])

\* the query for other records on the same file and tier
DeleteCheck(i) ==
    /\ proc[i].pc = "check"
    /\ DeleteStep(i, proc[i])

\* the blob deletion
DeleteBlob(i) ==
    /\ proc[i].pc = "blob"
    /\ DeleteStep(i, proc[i])

\* no delete() has been called yet
NoDeleteYet == \A k \in Ids : proc[k].pc = "idle"

\* the creation of a record before any delete() is called
CreateFirst(i, pub, c, g, actual) ==
    NoDeleteYet /\ Create(i, pub, c, g, actual)

CreateRefFirst(i, pub, p) ==
    NoDeleteYet /\ CreateRef(i, pub, p)

\* records are created, then deleted concurrently
NextDel ==
    \/ \E i \in Ids, pub \in BOOLEAN, c \in Contents, g \in Paths,
          actual \in Paths : CreateFirst(i, pub, c, g, actual)
    \/ \E i \in Ids, pub \in BOOLEAN, p \in Paths : CreateRefFirst(i, pub, p)
    \/ \E i \in Ids : DeleteRow(i)
    \/ \E i \in Ids : DeleteCheck(i)
    \/ \E i \in Ids : DeleteBlob(i)

SpecDel == Init /\ [][NextDel]_vars

\* records are created while others are deleted
NextDelCreate ==
    \/ \E i \in Ids, pub \in BOOLEAN, c \in Contents, g \in Paths,
          actual \in Paths : Create(i, pub, c, g, actual)
    \/ \E i \in Ids, pub \in BOOLEAN, p \in Paths : CreateRef(i, pub, p)
    \/ \E i \in Ids : DeleteRow(i)
    \/ \E i \in Ids : DeleteCheck(i)
    \/ \E i \in Ids : DeleteBlob(i)

SpecDelCreate == Init /\ [][NextDelCreate]_vars

(***************************************************************************)
(* save() taken one call at a time on in-memory copies of one record, each *)
(* loaded from the same row.  proc[k] is the save() on the k-th copy: the  *)
(* open and read of the source (first call of a save that moves), the save *)
(* of the destination storage with the assignment of file (pc "write"),    *)
(* the delete of the source (pc "unlink"), and super().save() writing the  *)
(* row (pc "row", or first call of a save that does not move).  No lock is *)
(* taken anywhere.                                                         *)
(***************************************************************************)
save_step(d, rows, st, actual, fail) ==
    LET o == d.o
    IN IF d.pc = "loaded" /\ NeedsMove(o)
       THEN IF ~StorageExists(st, ~o.is_public, o.name)
            THEN [d |-> [d EXCEPT !.pc = "done", !.raised = TRUE],
                  rows |-> rows, st |-> st]
            ELSE [d |-> [d EXCEPT !.src = o.name,
                                  !.content = st[~o.is_public][o.name].bytes,
                                  !.o = [o EXCEPT !.hint = "False"],
                                  !.pc = "write"],
                  rows |-> rows, st |-> st]
       ELSE IF d.pc = "write"
       THEN IF fail = "write"
            THEN [d |-> [d EXCEPT !.pc = "done", !.raised = TRUE],
                  rows |-> rows, st |-> st]
            ELSE LET st1 == StorageSave(st, o.is_public, actual, d.content)
                 IN [d |-> [d EXCEPT !.o = AssignFile(o, actual, st1).o,
                                     !.pc = "unlink"],
                     rows |-> rows, st |-> st1]
       ELSE IF d.pc = "unlink"
       THEN [d |-> [d EXCEPT !.o = [o EXCEPT !.old_is_public = o.is_public],
                             !.pc = "row"],
             rows |-> rows, st |-> StorageDelete(st, ~o.is_public, d.src)]
       ELSE [d |-> [d EXCEPT !.pc = "done"],
             rows |-> [rows EXCEPT ![d.id] = RowOf(o)], st |-> st]

\* one record created from an upload, and a copy of it loaded by each caller
InitCopies ==
    /\ \E pub \in BOOLEAN, p \in Paths, c \in Contents :
          LET o == NewInstance(pub, NoName, FALSE, c, EmptyStorages)
              r == save(o, TheRecord, EmptyTable, EmptyStorages, p, "none")
          IN /\ db = r.rows
             /\ inst = [i \in Ids |-> IF i = TheRecord THEN r.o ELSE NoInst]
             /\ storages = r.st
             /\ proc = [k \in Ids |->
                          [NoProc EXCEPT !.pc = "loaded", !.op = "save",
                                         !.id = TheRecord,
                                         !.o = FromDb(r.rows[TheRecord], r.st).o]]
    /\ last = NoOp
    /\ clock = 0
    /\ mtime = 0
    /\ file_closed = TRUE
    /\ resp = NoResp
    /\ hashing = NoHashing

\* copy.is_public = not copy.is_public, before its save()
ToggleCopy(k) ==
    /\ proc[k].pc = "loaded" /\ ~proc[k].toggled
    /\ proc' = [proc EXCEPT ![k].o.is_public = ~proc[k].o.is_public,
                            ![k].toggled = TRUE]
    /\ UNCHANGED <<lifeVars, serveVars, hashing>>

\* one call of the save() on copy k
SaveStep(k, actual, fail) ==
    LET r == save_step(proc[k], db, storages, actual, fail)
    IN /\ proc' = [proc EXCEPT ![k] = r.d]
       /\ db' = r.rows
       /\ storages' = r.st
       /\ UNCHANGED <<inst, last>>
       /\ UNCHANGED serveVars
       /\ UNCHANGED hashing

\* save() starts with _move_file(): the source is opened and read
SaveOpen(k) ==
    /\ proc[k].pc = "loaded" /\ NeedsMove(proc[k].o)
    /\ SaveStep(k, NoName, "none")

\* dst_storage.save(), generate_filename having returned g, and the
\* assignment of its result to file
SaveWrite(k, g, actual, fail) ==
    /\ proc[k].pc = "write"
    /\ actual \in AvailableNames(storages, proc[k].o.is_public, g)
    /\ SaveStep(k, actual, fail)

\* src_storage.delete()
SaveUnlink(k) ==
    /\ proc[k].pc = "unlink"
    /\ SaveStep(k, NoName, "none")

\* super().save() writes the row
SaveRow(k) ==
    /\ \/ proc[k].pc = "row"
       \/ proc[k].pc = "loaded" /\ ~NeedsMove(proc[k].o)
    /\ SaveStep(k, NoName, "none")

NextCopies ==
    \/ \E k \in Ids : ToggleCopy(k)
    \/ \E k \in Ids : SaveOpen(k)
    \/ \E k \in Ids, g \in Paths, actual \in Paths, fail \in FailPoints :
          SaveWrite(k, g, actual, fail)
    \/ \E k \in Ids : SaveUnlink(k)
    \/ \E k \in Ids : SaveRow(k)

SpecCopies == InitCopies /\ [][NextCopies]_vars

(***************************************************************************)
(* Properties of the lifecycle.  A step is recognised by the history       *)
(* variable: last' names the operation the step performed.                 *)
(***************************************************************************)
\* the persisted records other than i that reference (name, pub)
Sharers(rows, i, name, pub) ==
    {j \in Ids \ {i} : rows[j].saved /\ rows[j].name = name
                       /\ rows[j].is_public = pub}

\* C1: deleting a record whose (name, tier) another persisted record still
\* references leaves that blob and the other record untouched, so the other
\* record resolves it as before; deleting the last record referencing a
\* (name, tier) leaves no blob under that name in that tier.
DeletionGuard ==
    [][\A i \in Ids :
         (last'.op = "delete" /\ last'.id = i) =>
            LET o == inst[i]
                others == Sharers(db, i, o.name, o.is_public)
            IN /\ ~db'[i].saved
               /\ IF others # {}
                  THEN /\ storages' = storages
                       /\ \A j \in others : db'[j] = db[j]
                  ELSE ~StorageExists(storages', o.is_public, o.name)]_vars

\* C1 witness: a delete kept a blob that exists and that a persisted record
\* still references
DeletionGuardWitness ==
    /\ last.op = "delete" /\ last.outcome = "kept"
    /\ \E j \in Ids : /\ db[j].saved
                      /\ StorageExists(storages, db[j].is_public, db[j].name)
                      /\ db[j].sha1 # EmptySha1

WriteBeforeDelete ==
    [][\A i \in Ids :
         (last'.op = "save" /\ last'.id = i) =>
            LET o == inst[i]
                src == CellAt(storages, ~o.is_public, o.name)
                src1 == CellAt(storages', ~o.is_public, o.name)
            IN /\ (src.exists /\ ~src1.exists) =>
                     /\ last'.outcome = "moved"
                     /\ storages'[o.is_public][inst'[i].name] = Blob(src.bytes)
               /\ last'.outcome = "write_failed" =>
                     /\ src.exists /\ src1 = src
                     /\ last'.raised
                     /\ db' = db]_vars

\* C3 witness: the destination write of a move failed
WriteBeforeDeleteWitness ==
    /\ last.op = "save" /\ last.outcome = "write_failed" /\ last.raised
    /\ LET o == inst[last.id]
       IN /\ StorageExists(storages, ~o.is_public, o.name)
          /\ db[last.id].is_public # o.is_public

\* C4: a successful move leaves sha1 and _file_size as they were, computes
\* neither, and leaves the hint consumed (None).
MoveIsPureRelocation ==
    [][\A i \in Ids :
         (last'.op = "save" /\ last'.id = i /\ last'.outcome = "moved") =>
            /\ inst'[i].sha1 = inst[i].sha1
            /\ inst'[i].size = inst[i].size
            /\ db'[i].sha1 = inst[i].sha1
            /\ db'[i].size = inst[i].size
            /\ ~last'.hashed
            /\ inst'[i].hint = "None"]_vars

\* C4 witness: a move of a record with a digest
MoveIsPureRelocationWitness ==
    /\ last.op = "save" /\ last.outcome = "moved" /\ ~last.hashed
    /\ inst[last.id].sha1 # EmptySha1
    /\ inst[last.id].size > 0

\* C15 as claimed: building the instance of a row that carries a sha1 and a
\* size, a size of 0 included, reads no size and hashes nothing, and leaves
\* sha1 and _file_size as stored.
RehydrationSkipsHashing ==
    [][\A i \in Ids :
         (/\ last'.op = "load" /\ last'.id = i
          /\ db[i].sha1 # EmptySha1 /\ db[i].size # NoneSize) =>
            /\ ~last'.hashed
            /\ inst'[i].sha1 = db[i].sha1
            /\ inst'[i].size = db[i].size]_vars

(***************************************************************************)
(* Properties of one record over assignments of is_public and of file.     *)
(***************************************************************************)
\* the outcomes of a save() that went into _move_file
MoveOutcomes == {"moved", "write_failed", "open_failed"}

\* C13 as claimed: a save() goes into the blob move exactly when the record
\* is persisted and the instance's is_public differs from the persisted
\* is_public; the first save never does, nor does a save whose is_public is
\* the persisted one.
TransitionTrigger ==
    [][\A i \in Ids :
         (last'.op = "save" /\ last'.id = i) =>
            (last'.outcome \in MoveOutcomes
               <=> (/\ inst[i].pk /\ db[i].saved
                    /\ inst[i].is_public # db[i].is_public))]_vars

\* C14 as claimed: an assignment of new bytes to file leaves sha1 and
\* _file_size those of the new bytes, whatever happened before; an
\* assignment of is_public, and a save of a record whose file is already
\* stored, compute nothing and leave both as they were.
DigestTracksContent ==
    [][\A i \in Ids :
         /\ (last'.op = "assign" /\ last'.id = i) =>
               /\ last'.hashed
               /\ inst'[i].sha1 = HexDigest(ShaUpdate(0, inst'[i].upload))
               /\ inst'[i].size = Len(inst'[i].upload)
         /\ (/\ inst[i].live /\ inst'[i].live
             /\ \/ last'.op = "none"
                \/ last'.op = "save" /\ last'.id = i /\ inst[i].committed) =>
               /\ ~last'.hashed
               /\ inst'[i].sha1 = inst[i].sha1
               /\ inst'[i].size = inst[i].size]_vars

\* C18 as claimed: when a persisted record a is moved to the other tier by
\* a save that does not raise, every other persisted record b that
\* references the same (name, tier) as a did still locates a blob with the
\* same bytes afterwards.
SharedBlobSurvivesTransition ==
    [][\A a \in Ids :
         (/\ last'.op = "save" /\ last'.id = a /\ last'.outcome = "moved"
          /\ ~last'.raised /\ db[a].saved) =>
            \A b \in Sharers(db, a, db[a].name, db[a].is_public) :
               CellAt(storages, db[b].is_public, db[b].name).exists =>
                  /\ db'[b] = db[b]
                  /\ CellAt(storages', db'[b].is_public, db'[b].name)
                        = CellAt(storages, db[b].is_public, db[b].name)]_vars

(***************************************************************************)
(* Properties of delete() call by call.  The (name, tier) a delete() call  *)
(* works on is that of its instance, proc[i].o.                            *)
(***************************************************************************)
\* the delete() calls that have removed their row and not yet returned
Deleting == {k \in Ids : proc[k].pc \in {"check", "blob"}}

\* C16: a delete() removes its row first, makes the query once after that,
\* and removes a blob only as its last call and only after a query that
\* found no record; with deletes only, no call of a delete() takes away the
\* blob of a record that is still persisted.
DeletionStepOrder ==
    [][/\ \A i \in Ids :
            /\ (db[i].saved /\ ~db'[i].saved) =>
                  proc[i].pc = "idle" /\ proc'[i].pc = "check"
            /\ proc'[i].pc = "blob" =>
                  /\ ~db'[i].saved
                  /\ proc[i].pc \in {"check", "blob"}
                  /\ ~proc'[i].found
            /\ (proc[i].pc = "check" /\ proc'[i].pc # "check") =>
                  /\ db' = db /\ storages' = storages
                  /\ proc'[i].pc = IF proc'[i].found THEN "done" ELSE "blob"
       /\ storages' # storages =>
            \/ last'.op = "create"
            \/ \E i \in Ids : /\ proc[i].pc = "blob" /\ proc'[i].pc = "done"
                              /\ ~proc[i].found
       /\ \A j \in Ids :
            (/\ last'.op # "create"
             /\ db[j].saved /\ db'[j].saved
             /\ StorageExists(storages, db[j].is_public, db[j].name)) =>
               CellAt(storages', db'[j].is_public, db'[j].name)
                  = CellAt(storages, db[j].is_public, db[j].name)]_vars

\* C16 witness: a delete() has removed its row, its query found another
\* record on the same blob, and the blob is still there
DeletionStepOrderWitness ==
    \E i \in Ids, j \in Ids :
        /\ proc[i].pc = "done" /\ proc[i].found
        /\ db[j].saved /\ db[j].name = proc[i].o.name
        /\ db[j].is_public = proc[i].o.is_public
        /\ StorageExists(storages, db[j].is_public, db[j].name)

\* C19: with deletes only, a blob deletion never leaves a persisted record
\* on the (name, tier) it removed; and when a delete() has returned, no
\* persisted record references its (name, tier) and no other delete() on
\* that (name, tier) is in progress, the blob is absent.
ConcurrentDeletesOfSharers ==
    /\ [][\A i \in Ids :
            (proc[i].pc = "blob" /\ proc'[i].pc = "done") =>
               ~Referenced(db', proc[i].o.name, proc[i].o.is_public)]_vars
    /\ [](\A i \in Ids :
            (/\ proc[i].pc = "done"
             /\ ~Referenced(db, proc[i].o.name, proc[i].o.is_public)
             /\ \A k \in Deleting :
                   ~(/\ proc[k].o.name = proc[i].o.name
                     /\ proc[k].o.is_public = proc[i].o.is_public)) =>
               ~StorageExists(storages, proc[i].o.is_public, proc[i].o.name))

\* C19 witness: two delete() calls on the same blob have both returned, the
\* one whose query ran first having found the other's record
ConcurrentDeletesOfSharersWitness ==
    \E i \in Ids, k \in Ids :
        /\ i # k
        /\ proc[i].pc = "done" /\ proc[k].pc = "done"
        /\ proc[i].o.name = proc[k].o.name
        /\ proc[i].o.is_public = proc[k].o.is_public
        /\ proc[i].o.sha1 # EmptySha1
        /\ proc[i].found /\ ~proc[k].found
        /\ ~StorageExists(storages, proc[i].o.is_public, proc[i].o.name)

\* C17: the blob deletion of a delete() acts on the answer its query gave:
\* it removes the blob whatever records are persisted by then.
DeletionRace ==
    [][\A i \in Ids :
         (proc[i].pc = "blob" /\ proc'[i].pc = "done") =>
            /\ ~proc[i].found
            /\ ~StorageExists(storages', proc[i].o.is_public, proc[i].o.name)]_vars

\* C17 witness: delete(A) has returned after a query that found no record;
\* a record C on A's (name, tier) is persisted, created while the blob was
\* still readable (it has a digest), and the blob is gone
DeletionRaceWitness ==
    \E a \in Ids, c \in Ids :
        /\ a # c
        /\ proc[a].pc = "done" /\ ~proc[a].found
        /\ proc[c].pc = "idle"
        /\ db[c].saved /\ db[c].name = proc[a].o.name
        /\ db[c].is_public = proc[a].o.is_public
        /\ db[c].sha1 # EmptySha1
        /\ ~StorageExists(storages, db[c].is_public, db[c].name)

(***************************************************************************)
(* Properties of concurrent save() calls on copies of one record.          *)
(***************************************************************************)
\* C20 as claimed: when the save() calls on all the copies have finished,
\* by returning or by raising, at least one copy having changed is_public,
\* the row's (name, tier) locates a blob, and its bytes are those the
\* record was created with (the row's sha1 is their digest).
ConcurrentSavesKeepBlob ==
    (/\ \A k \in Ids : proc[k].op = "save" /\ proc[k].pc = "done"
     /\ \E k \in Ids : proc[k].toggled) =>
        LET row == db[TheRecord]
        IN /\ StorageExists(storages, row.is_public, row.name)
           /\ HexDigest(ShaUpdate(0, CellAt(storages, row.is_public,
                                            row.name).bytes)) = row.sha1

(***************************************************************************)
(* Properties of the duplicate queries, in every state of the table the    *)
(* lifecycle reaches.  A queried object is a persisted record (its row) or *)
(* the live instance of one.                                               *)
(***************************************************************************)
\* the sha1 values a queried object of pk i may carry
Sha1sOf(i) ==
    {db[i].sha1} \cup (IF inst[i].live /\ inst[i].pk THEN {inst[i].sha1} ELSE {})

\* C8: for persisted A # B with equal non-empty sha1, find_duplicates(A)
\* contains B; find_duplicates(A) never contains A nor a record with
\* another sha1; B is in find_duplicates(A) exactly when A is in
\* find_duplicates(B).
FindDuplicatesNonEmpty ==
    \A a \in All(db) :
        /\ \A s \in Sha1sOf(a) \ {EmptySha1} :
              LET dups == find_duplicates(db, a, s)
              IN /\ a \notin dups
                 /\ \A b \in dups : db[b].saved /\ db[b].sha1 = s
                 /\ \A b \in All(db) : (b # a /\ db[b].sha1 = s) => b \in dups
        /\ \A b \in All(db) :
              (db[a].sha1 # EmptySha1 /\ db[b].sha1 # EmptySha1) =>
                 (b \in find_duplicates(db, a, db[a].sha1)
                    <=> a \in find_duplicates(db, b, db[b].sha1))

\* C8 witness: two persisted records with the same non-empty sha1
FindDuplicatesNonEmptyWitness ==
    \E a, b \in All(db) :
        /\ a # b /\ db[a].sha1 # EmptySha1 /\ db[a].sha1 = db[b].sha1
        /\ find_duplicates(db, a, db[a].sha1) = {b}

\* C9 as claimed: find_duplicates of a record with an empty sha1 is empty,
\* and no record with an empty sha1 appears in any find_duplicates result.
FindDuplicatesEmptyDigest ==
    \A a \in All(db) :
        /\ db[a].sha1 = EmptySha1 => find_duplicates(db, a, db[a].sha1) = {}
        /\ \A b \in find_duplicates(db, a, db[a].sha1) : db[b].sha1 # EmptySha1

FailuresAbsorbed ==
    /\ hashing.pc # "raise"
    /\ hashing.pc = "done" =>
          /\ hashing.size_failed => hashing.size = NoneSize
          /\ hashing.hash_failed => hashing.sha1 = EmptySha1
          /\ hashing.trigger \in {"init", "assign"}

\* C11 witness: an assignment's call returned after both the size read and
\* a later read, with part of the stream already hashed, had raised
FailuresAbsorbedWitness ==
    /\ hashing.pc = "done" /\ hashing.trigger = "assign"
    /\ hashing.size_failed /\ hashing.hash_failed
    /\ hashing.reads >= 1 /\ hashing.sha # 0

\* C12: while generate_sha1 reads, the sha object holds the bytes from the
\* start of the stream up to the read position; when file_data_changed has
\* returned without a hashing failure, at least one read was made, sha1 is
\* the digest of the whole content and the read position is 0, in the first
\* call and in every later call on the same stream.
HashingRepeatable ==
    /\ hashing.pc = "read" =>
          hashing.sha = ShaUpdate(0, SubSeq(hashing.bytes, 1, hashing.pos))
    /\ (hashing.pc = "done" /\ ~hashing.hash_failed) =>
          /\ hashing.reads >= 1
          /\ hashing.sha1 = HexDigest(ShaUpdate(0, hashing.bytes))
          /\ hashing.pos = 0

\* C12 witness: a second call hashed a stream in several reads
HashingRepeatableWitness ==
    /\ hashing.pc = "done" /\ ~hashing.hash_failed
    /\ hashing.calls >= 1 /\ hashing.reads >= 3
    /\ hashing.bytes # <<>>

(***************************************************************************)
(* Properties of the delivery backends.  resp is the record of the last    *)
(* serve() call: its result, the request's header, and whether the file    *)
(* was on the disk, and its mtime, when the call was made.                 *)
(***************************************************************************)
\* C5: the nginx and xsendfile backends return a response with their
\* header, never open the file and never end in not found, whether or not
\* the file is on the disk; the nginx value starts with nginx_location, the
\* xsendfile value is the absolute path of the file; the record's file is
\* closed after the call.
ProxyBackendsNeverOpen ==
    resp.backend \in {"nginx", "xsendfile"} =>
        /\ resp.kind = "response"
        /\ ~resp.opened
        /\ file_closed
        /\ resp.backend = "nginx" =>
              /\ resp.header = "X-Accel-Redirect"
              /\ Len(resp.value) = 2
              /\ Head(resp.value) = NginxLocation
              /\ resp.value[2] = inst[1].name
        /\ resp.backend = "xsendfile" =>
              /\ resp.header = "X-Sendfile"
              /\ resp.value = <<Location(inst[1].is_public), inst[1].name>>

\* C5 witness: a proxy backend served a record whose file had been removed
ProxyBackendsNeverOpenWitness ==
    /\ resp.backend \in {"nginx", "xsendfile"} /\ resp.kind = "response"
    /\ ~resp.exists
    /\ ~StorageExists(storages, inst[1].is_public, inst[1].name)

\* C6: a direct delivery of a file on the disk is not modified, the file
\* unopened, when the request's if-modified-since is at least the mtime in
\* whole seconds; it streams the file with Last-Modified when the header is
\* absent or older.
ConditionalRequest ==
    (resp.backend = "default" /\ resp.exists) =>
        IF resp.ims # NoHeader /\ resp.ims * TicksPerSecond
                                     >= resp.mtime - (resp.mtime % TicksPerSecond)
        THEN resp.kind = "not_modified" /\ ~resp.opened
        ELSE /\ resp.kind = "response" /\ resp.opened
             /\ resp.header = "Last-Modified"
             /\ resp.last_modified * TicksPerSecond
                   = resp.mtime - (resp.mtime % TicksPerSecond)

\* C6 witness: not modified for a header equal to the whole seconds of an
\* mtime that has a fraction
ConditionalRequestWitness ==
    /\ resp.backend = "default" /\ resp.kind = "not_modified"
    /\ resp.mtime % TicksPerSecond # 0
    /\ resp.ims * TicksPerSecond < resp.mtime

\* C7: a serve() call ends in a response, in not modified or in not found;
\* not found only in the direct backend and only for a file that is not on
\* the disk, and always then.
ServeTerminalStates ==
    resp.backend # "none" =>
        /\ resp.kind \in {"response", "not_modified", "not_found"}
        /\ resp.kind = "not_found" => (resp.backend = "default" /\ ~resp.exists)
        /\ (resp.backend = "default" /\ ~resp.exists) => resp.kind = "not_found"

\* C7 witness: the direct backend ended in not found
ServeTerminalStatesWitness ==
    /\ resp.backend = "default" /\ resp.kind = "not_found"
    /\ ~StorageExists(storages, inst[1].is_public, inst[1].name)

=============================================================================
